---------------------------- MODULE Spec2Model ----------------------------
(***************************************************************************)
(* Model of trade-tx-producer.py: a single-threaded Kafka load generator.  *)
(* The process parses MESSAGES_PER_SECOND, builds a producer, and either   *)
(* idles (rate 0) or runs generate / send / count / log / sleep forever,   *)
(* until an exception or a KeyboardInterrupt ends it.                      *)
(*                                                                         *)
(* Text is modelled as sequences of one-character strings, so that int()   *)
(* parsing, f-string formatting and UTF-8 encoding are real conversions.   *)
(* Prices are carried in thousandths before rounding and in cents after.   *)
(* The timestamp of a record is an abstract clock reading; its ISO text is *)
(* not reproduced.                                                         *)
(***************************************************************************)
EXTENDS Integers, Sequences, FiniteSets, TLC

VARIABLES
    env,              \* MESSAGES_PER_SECOND in the environment (text), or Unset
    rate,             \* module global MESSAGES_PER_SECOND: <<n>> once bound, else <<>>
    pc,               \* position of the single thread of control
    producer,         \* "none" | "open" | "closed"
    trade,            \* local `trade` of the running loop
    account_id,       \* local `account_id` of the running loop
    count,            \* local `count`
    sendCalls,        \* number of producer.send calls entered
    lastSent,         \* arguments of the latest producer.send that returned
    progressLog,      \* the "Sent trades count" lines logged so far
    summary,          \* <<n>> once "Total messages sent: n" is logged, else <<>>
    flushCalls,       \* number of producer.flush calls
    closeCalls,       \* number of producer.close calls
    interruptedAt,    \* pc at which the KeyboardInterrupt was raised, or "none"
    exc,              \* exception in flight / that ended the process, or "none"
    sleepsSinceSend,  \* time.sleep calls completed since the latest send
    lastSleep,        \* argument of the latest time.sleep, or NoSleep
    lastOp            \* latest operation the loop performed

vars == <<env, rate, pc, producer, trade, account_id, count, sendCalls, lastSent,
          progressLog, summary, flushCalls, closeCalls, interruptedAt, exc,
          sleepsSinceSend, lastSleep, lastOp>>

-----------------------------------------------------------------------------
(* Bounds *)

\* longest MESSAGES_PER_SECOND text enumerated
MaxEnvLen == 2
\* the running loop is explored up to this many counted sends
MaxCount == 200
\* how many values are sampled at each end of a randint range
SampleWidth == 1
\* how many thousandths are sampled at each end of the uniform range
UniformWidth == 6

-----------------------------------------------------------------------------
(* Text helpers *)

DigitChars == <<"0", "1", "2", "3", "4", "5", "6", "7", "8", "9">>

DigitSet == {DigitChars[i] : i \in 1..10}

DigitValue(c) == CHOOSE d \in 0..9 : DigitChars[d + 1] = c

\* str(n) for n >= 0, as f"{n}" formats it
RECURSIVE IntToStr(_)
IntToStr(n) ==
    IF n < 10 THEN <<DigitChars[n + 1]>>
    ELSE IntToStr(n \div 10) \o <<DigitChars[(n % 10) + 1]>>

\* value of a non-empty run of decimal digits
RECURSIVE DigitsToInt(_)
DigitsToInt(s) ==
    IF Len(s) = 0 THEN 0
    ELSE 10 * DigitsToInt(SubSeq(s, 1, Len(s) - 1)) + DigitValue(s[Len(s)])

AllDigits(s) == Len(s) > 0 /\ \A i \in 1..Len(s) : s[i] \in DigitSet

\* code points of the ASCII characters the program encodes
AsciiCode(c) ==
    IF c \in DigitSet THEN 48 + DigitValue(c)
    ELSE CASE c = "A" -> 65
           [] c = "C" -> 67
           [] c = "D" -> 68
           [] c = "R" -> 82
           [] c = "T" -> 84

\* str.encode('utf-8') on ASCII text: one byte per character
Utf8Encode(s) == [i \in 1..Len(s) |-> AsciiCode(s[i])]

-----------------------------------------------------------------------------
(* Configuration *)

Unset == <<"<unset>">>

EnvAlphabet == {"-", "+", "0", "1", "x"}

RECURSIVE StringsUpTo(_)
StringsUpTo(n) ==
    IF n = 0 THEN {<<>>}
    ELSE LET shorter == StringsUpTo(n - 1)
         IN  shorter \cup {Append(s, c) : s \in {t \in shorter : Len(t) = n - 1},
                                          c \in EnvAlphabet}

EnvValues == {Unset} \cup StringsUpTo(MaxEnvLen)

DefaultRate == 100

NoRate == <<>>

\* int(os.getenv("MESSAGES_PER_SECOND", 100)): the default is already an int;
\* text must be an optional sign followed by decimal digits (leading zeros are
\* accepted).  Surrounding whitespace and "_" separators, which int() also
\* accepts, are not in EnvAlphabet.
ParseInt(v) ==
    IF v = Unset THEN [ok |-> TRUE, val |-> DefaultRate]
    ELSE IF Len(v) > 0 /\ v[1] = "-" /\ AllDigits(Tail(v))
         THEN [ok |-> TRUE, val |-> 0 - DigitsToInt(Tail(v))]
    ELSE IF Len(v) > 0 /\ v[1] = "+" /\ AllDigits(Tail(v))
         THEN [ok |-> TRUE, val |-> DigitsToInt(Tail(v))]
    ELSE IF AllDigits(v) THEN [ok |-> TRUE, val |-> DigitsToInt(v)]
    ELSE [ok |-> FALSE, val |-> 0]

TOPIC == "demo-topic"

-----------------------------------------------------------------------------
(* generate_trade *)

Min(a, b) == IF a < b THEN a ELSE b

Max(a, b) == IF a > b THEN a ELSE b

\* sampled outcomes of random.randint(a, b): both ends of the closed range
RandInt(a, b) ==
    (a .. Min(b, a + SampleWidth - 1)) \cup (Max(a, b - SampleWidth + 1) .. b)

\* sampled outcomes of random.uniform(a, b), in thousandths: a <= x < b
RandUniform(a, b) ==
    {a * 1000 + k : k \in 0 .. (UniformWidth - 1)}
        \cup {b * 1000 - 1 - k : k \in 0 .. (UniformWidth - 1)}

\* round(x, 2): thousandths to cents, ties to the even cent
Round2(x) ==
    LET q == x \div 10
        r == x % 10
    IN  IF r < 5 THEN q
        ELSE IF r > 5 THEN q + 1
        ELSE IF q % 2 = 0 THEN q ELSE q + 1

symbols == <<"AAPL", "GOOGL", "MSFT", "AMZN", "TSLA", "META", "NVDA">>

trade_types == <<"BUY", "SELL">>

\* random.choice(seq)
Choice(seq) == {seq[i] : i \in 1..Len(seq)}

ClockSamples == {0}

\* one outcome of every random draw (and clock read) generate_trade makes
Draws ==
    [acct : RandInt(1000, 9999),
     trd : RandInt(100000, 999999),
     symbol : Choice(symbols),
     trade_type : Choice(trade_types),
     quantity : RandInt(1, 1000),
     price : RandUniform(50, 500),
     now : ClockSamples]

PrefixAcc == <<"A", "C", "C">>

PrefixTrd == <<"T", "R", "D">>

\* generate_trade with the returned key sampled separately from the record's
generate_trade_stale_key(d) ==
    <<[account_id |-> PrefixAcc \o IntToStr(d.acct),
       trade_id |-> PrefixTrd \o IntToStr(d.trd),
       symbol |-> d.symbol,
       trade_type |-> d.trade_type,
       quantity |-> d.quantity,
       price |-> Round2(d.price),
       timestamp |-> d.now],
      PrefixAcc \o IntToStr(10999 - d.acct)>>

\* generate_trade with quantity drawn from randint(0, 999)
generate_trade_qty_from_zero(d) ==
    LET acct == PrefixAcc \o IntToStr(d.acct)
    IN  <<[account_id |-> acct,
           trade_id |-> PrefixTrd \o IntToStr(d.trd),
           symbol |-> d.symbol,
           trade_type |-> d.trade_type,
           quantity |-> d.quantity - 1,
           price |-> Round2(d.price),
           timestamp |-> d.now],
          acct>>

\* generate_trade(): the pair (record, account_id) it returns for draws d
generate_trade(d) ==
    LET acct == PrefixAcc \o IntToStr(d.acct)
    IN  <<[account_id |-> acct,
           trade_id |-> PrefixTrd \o IntToStr(d.trd),
           symbol |-> d.symbol,
           trade_type |-> d.trade_type,
           quantity |-> d.quantity,
           price |-> Round2(d.price),
           timestamp |-> d.now],
          acct>>

\* draws the running loop is explored with: every draw at its minimum, and
\* every draw at its maximum
LowDraw ==
    [acct |-> 1000, trd |-> 100000, symbol |-> symbols[1],
     trade_type |-> trade_types[1], quantity |-> 1, price |-> 50000, now |-> 0]

HighDraw ==
    [acct |-> 9999, trd |-> 999999, symbol |-> symbols[7],
     trade_type |-> trade_types[2], quantity |-> 1000, price |-> 499999, now |-> 0]

LoopDraws == {LowDraw, HighDraw}

-----------------------------------------------------------------------------
(* State *)

NoTrade == [account_id |-> <<>>, trade_id |-> <<>>, symbol |-> "", trade_type |-> "",
            quantity |-> 0, price |-> 0, timestamp |-> 0]

NoSent == [topic |-> "", key |-> <<>>, value |-> NoTrade]

NoSummary == <<>>

NoSleep == [num |-> 0, den |-> 1]

\* delay = 1.0 / MESSAGES_PER_SECOND, kept as the exact fraction
Delay(r) == [num |-> 1, den |-> r]

PausedTick == [num |-> 60, den |-> 1]

\* time.sleep raises ValueError for a negative argument
IsNegative(d) == (d.num > 0 /\ d.den < 0) \/ (d.num < 0 /\ d.den > 0)

\* a progress test that fires every 50 sends
ProgressDue_every50(c) == c % 50 = 0

\* count % 100 == 0
ProgressDue(c) == c % 100 = 0

LoopPcs == {"generate", "send", "incr", "check", "sleep"}

Init ==
    /\ env \in EnvValues
    /\ rate = NoRate
    /\ pc = "config"
    /\ producer = "none"
    /\ trade = NoTrade
    /\ account_id = <<>>
    /\ count = 0
    /\ sendCalls = 0
    /\ lastSent = NoSent
    /\ progressLog = <<>>
    /\ summary = NoSummary
    /\ flushCalls = 0
    /\ closeCalls = 0
    /\ interruptedAt = "none"
    /\ exc = "none"
    /\ sleepsSinceSend = 0
    /\ lastSleep = NoSleep
    /\ lastOp = "none"

-----------------------------------------------------------------------------
(* Start-up *)

\* line 27 with a value int() rejects: ValueError at import, nothing else runs
ParseConfigFails ==
    /\ pc = "config"
    /\ ~ParseInt(env).ok
    /\ pc' = "crashed"
    /\ exc' = "ValueError"
    /\ UNCHANGED <<env, rate, producer, trade, account_id, count, sendCalls, lastSent,
                   progressLog, summary, flushCalls, closeCalls, interruptedAt,
                   sleepsSinceSend, lastSleep, lastOp>>

\* a lenient parse that falls back to the default rate on malformed text
ParseConfig_lenient ==
    /\ pc = "config"
    /\ rate' = <<IF ParseInt(env).ok THEN ParseInt(env).val ELSE DefaultRate>>
    /\ pc' = "create"
    /\ UNCHANGED <<env, producer, trade, account_id, count, sendCalls, lastSent,
                   progressLog, summary, flushCalls, closeCalls, interruptedAt, exc,
                   sleepsSinceSend, lastSleep, lastOp>>

\* line 27 with a value int() accepts, then line 103 calls the function
ParseConfig ==
    /\ pc = "config"
    /\ ParseInt(env).ok
    /\ rate' = <<ParseInt(env).val>>
    /\ pc' = "create"
    /\ UNCHANGED <<env, producer, trade, account_id, count, sendCalls, lastSent,
                   progressLog, summary, flushCalls, closeCalls, interruptedAt, exc,
                   sleepsSinceSend, lastSleep, lastOp>>

\* lines 70-71: producer = create_producer(); count = 0
CreateProducer ==
    /\ pc = "create"
    /\ producer' = "open"
    /\ count' = 0
    /\ pc' = "branch"
    /\ UNCHANGED <<env, rate, trade, account_id, sendCalls, lastSent, progressLog,
                   summary, flushCalls, closeCalls, interruptedAt, exc,
                   sleepsSinceSend, lastSleep, lastOp>>

\* line 70 when KafkaProducer(...) raises: nothing catches it
CreateProducerFails ==
    /\ pc = "create"
    /\ pc' = "crashed"
    /\ exc' = "KafkaError"
    /\ UNCHANGED <<env, rate, producer, trade, account_id, count, sendCalls, lastSent,
                   progressLog, summary, flushCalls, closeCalls, interruptedAt,
                   sleepsSinceSend, lastSleep, lastOp>>

\* a branch that never pauses
Branch_no_pause ==
    /\ pc = "branch"
    /\ pc' = "generate"
    /\ UNCHANGED <<env, rate, producer, trade, account_id, count, sendCalls, lastSent,
                   progressLog, summary, flushCalls, closeCalls, interruptedAt, exc,
                   sleepsSinceSend, lastSleep, lastOp>>

\* line 73: rate 0 enters the paused loop (74-76); any other rate computes the
\* delay and enters the running loop (82-87)
Branch ==
    /\ pc = "branch"
    /\ pc' = IF rate[1] = 0 THEN "paused" ELSE "generate"
    /\ UNCHANGED <<env, rate, producer, trade, account_id, count, sendCalls, lastSent,
                   progressLog, summary, flushCalls, closeCalls, interruptedAt, exc,
                   sleepsSinceSend, lastSleep, lastOp>>

-----------------------------------------------------------------------------
(* Paused loop *)

\* line 77: time.sleep(60), again and again
PausedSleep ==
    /\ pc = "paused"
    /\ lastSleep' = PausedTick
    /\ lastOp' = "sleep"
    /\ UNCHANGED <<env, rate, pc, producer, trade, account_id, count, sendCalls,
                   lastSent, progressLog, summary, flushCalls, closeCalls,
                   interruptedAt, exc, sleepsSinceSend>>

\* lines 78-80: log "Stopping producer." and return; the producer is left open
PausedStop ==
    /\ pc = "paused_except"
    /\ pc' = "returned"
    /\ UNCHANGED <<env, rate, producer, trade, account_id, count, sendCalls, lastSent,
                   progressLog, summary, flushCalls, closeCalls, interruptedAt, exc,
                   sleepsSinceSend, lastSleep, lastOp>>

-----------------------------------------------------------------------------
(* Running loop *)

\* line 88: trade, account_id = generate_trade()
Generate ==
    /\ pc = "generate"
    /\ count < MaxCount
    /\ \E d \in LoopDraws :
          /\ trade' = generate_trade(d)[1]
          /\ account_id' = generate_trade(d)[2]
    /\ pc' = "send"
    /\ lastOp' = "generate"
    /\ UNCHANGED <<env, rate, producer, count, sendCalls, lastSent, progressLog,
                   summary, flushCalls, closeCalls, interruptedAt, exc,
                   sleepsSinceSend, lastSleep>>

\* line 89: producer.send(TOPIC, key=account_id.encode('utf-8'), value=trade)
Send ==
    /\ pc = "send"
    /\ sendCalls' = sendCalls + 1
    /\ lastSent' = [topic |-> TOPIC, key |-> Utf8Encode(account_id), value |-> trade]
    /\ sleepsSinceSend' = 0
    /\ pc' = "incr"
    /\ lastOp' = "send"
    /\ UNCHANGED <<env, rate, producer, trade, account_id, count, progressLog,
                   summary, flushCalls, closeCalls, interruptedAt, exc, lastSleep>>

\* a send whose exception leaves the process without running the finally block
SendRaises_no_finally ==
    /\ pc = "send"
    /\ sendCalls' = sendCalls + 1
    /\ exc' = "SendError"
    /\ pc' = "crashed"
    /\ lastOp' = "send"
    /\ UNCHANGED <<env, rate, producer, trade, account_id, count, lastSent,
                   progressLog, summary, flushCalls, closeCalls, interruptedAt,
                   sleepsSinceSend, lastSleep>>

\* line 89 when producer.send raises: `except KeyboardInterrupt` does not match,
\* so control goes to the finally block (98) with the exception pending
SendRaises ==
    /\ pc = "send"
    /\ sendCalls' = sendCalls + 1
    /\ exc' = "SendError"
    /\ pc' = "flush"
    /\ lastOp' = "send"
    /\ UNCHANGED <<env, rate, producer, trade, account_id, count, lastSent,
                   progressLog, summary, flushCalls, closeCalls, interruptedAt,
                   sleepsSinceSend, lastSleep>>

\* line 90: count += 1
Increment ==
    /\ pc = "incr"
    /\ count' = count + 1
    /\ pc' = "check"
    /\ lastOp' = "incr"
    /\ UNCHANGED <<env, rate, producer, trade, account_id, sendCalls, lastSent,
                   progressLog, summary, flushCalls, closeCalls, interruptedAt, exc,
                   sleepsSinceSend, lastSleep>>

\* the progress line of line 93
ProgressLine ==
    [count |-> count, trade_type |-> trade.trade_type, quantity |-> trade.quantity,
     symbol |-> trade.symbol, account_id |-> account_id]

\* the sleep indented under the progress test
CheckProgress_sleep_in_if ==
    /\ pc = "check"
    /\ progressLog' = IF ProgressDue(count) THEN Append(progressLog, ProgressLine)
                      ELSE progressLog
    /\ pc' = IF ProgressDue(count) THEN "sleep" ELSE "generate"
    /\ lastOp' = "check"
    /\ UNCHANGED <<env, rate, producer, trade, account_id, count, sendCalls, lastSent,
                   summary, flushCalls, closeCalls, interruptedAt, exc,
                   sleepsSinceSend, lastSleep>>

\* lines 92-93: if count % 100 == 0: logger.info(...)
CheckProgress ==
    /\ pc = "check"
    /\ progressLog' = IF ProgressDue(count) THEN Append(progressLog, ProgressLine)
                      ELSE progressLog
    /\ pc' = "sleep"
    /\ lastOp' = "check"
    /\ UNCHANGED <<env, rate, producer, trade, account_id, count, sendCalls, lastSent,
                   summary, flushCalls, closeCalls, interruptedAt, exc,
                   sleepsSinceSend, lastSleep>>

\* line 95: time.sleep(delay); a negative delay raises ValueError, which goes
\* to the finally block like any exception other than KeyboardInterrupt
Sleep ==
    /\ pc = "sleep"
    /\ lastOp' = "sleep"
    /\ IF IsNegative(Delay(rate[1]))
       THEN /\ exc' = "ValueError"
            /\ pc' = "flush"
            /\ UNCHANGED <<sleepsSinceSend, lastSleep>>
       ELSE /\ sleepsSinceSend' = sleepsSinceSend + 1
            /\ lastSleep' = Delay(rate[1])
            /\ pc' = "generate"
            /\ UNCHANGED exc
    /\ UNCHANGED <<env, rate, producer, trade, account_id, count, sendCalls, lastSent,
                   progressLog, summary, flushCalls, closeCalls, interruptedAt>>

\* lines 96-97: except KeyboardInterrupt: log the total, then fall into finally
LogSummary ==
    /\ pc = "except"
    /\ summary' = <<count>>
    /\ pc' = "flush"
    /\ UNCHANGED <<env, rate, producer, trade, account_id, count, sendCalls, lastSent,
                   progressLog, flushCalls, closeCalls, interruptedAt, exc,
                   sleepsSinceSend, lastSleep, lastOp>>

\* line 99: producer.flush()
Flush ==
    /\ pc = "flush"
    /\ flushCalls' = flushCalls + 1
    /\ pc' = "close"
    /\ lastOp' = "flush"
    /\ UNCHANGED <<env, rate, producer, trade, account_id, count, sendCalls, lastSent,
                   progressLog, summary, closeCalls, interruptedAt, exc,
                   sleepsSinceSend, lastSleep>>

\* line 100: producer.close(); then the function returns, or the pending
\* exception leaves it and ends the process
Close ==
    /\ pc = "close"
    /\ closeCalls' = closeCalls + 1
    /\ producer' = "closed"
    /\ pc' = IF exc = "none" THEN "returned" ELSE "crashed"
    /\ lastOp' = "close"
    /\ UNCHANGED <<env, rate, trade, account_id, count, sendCalls, lastSent,
                   progressLog, summary, flushCalls, interruptedAt, exc,
                   sleepsSinceSend, lastSleep>>

-----------------------------------------------------------------------------
(* The interrupt *)

\* One SIGINT, raised as KeyboardInterrupt between two steps of the function.
\* In the paused try (75-77) and in the running try (86-95) it is caught; before
\* them (70-84) and inside the finally block (99-100) nothing catches it.
Interrupt ==
    /\ interruptedAt = "none"
    /\ pc \in {"create", "branch", "paused", "flush", "close"} \cup LoopPcs
    /\ interruptedAt' = pc
    /\ pc' = CASE pc = "paused" -> "paused_except"
               [] pc \in LoopPcs -> "except"
               [] OTHER -> "crashed"
    /\ exc' = IF pc = "paused" \/ pc \in LoopPcs THEN exc ELSE "KeyboardInterrupt"
    /\ UNCHANGED <<env, rate, producer, trade, account_id, count, sendCalls, lastSent,
                   progressLog, summary, flushCalls, closeCalls, sleepsSinceSend,
                   lastSleep, lastOp>>

Next ==
    \/ ParseConfig
    \/ ParseConfigFails
    \/ CreateProducer
    \/ CreateProducerFails
    \/ Branch
    \/ PausedSleep
    \/ PausedStop
    \/ Generate
    \/ Send
    \/ SendRaises
    \/ Increment
    \/ CheckProgress
    \/ Sleep
    \/ LogSummary
    \/ Flush
    \/ Close
    \/ Interrupt

Spec == Init /\ [][Next]_vars

-----------------------------------------------------------------------------
(* generate_trade on its own, over every sampled draw *)

InitGen ==
    /\ env = Unset
    /\ rate = <<DefaultRate>>
    /\ pc = "unit"
    /\ producer = "none"
    /\ trade = NoTrade
    /\ account_id = <<>>
    /\ count = 0
    /\ sendCalls = 0
    /\ lastSent = NoSent
    /\ progressLog = <<>>
    /\ summary = NoSummary
    /\ flushCalls = 0
    /\ closeCalls = 0
    /\ interruptedAt = "none"
    /\ exc = "none"
    /\ sleepsSinceSend = 0
    /\ lastSleep = NoSleep
    /\ lastOp = "none"

\* one call of generate_trade() (54-67)
CallGenerateTrade ==
    /\ pc = "unit"
    /\ lastOp = "none"
    /\ \E d \in Draws :
          /\ trade' = generate_trade(d)[1]
          /\ account_id' = generate_trade(d)[2]
    /\ lastOp' = "generate"
    /\ UNCHANGED <<env, rate, pc, producer, count, sendCalls, lastSent, progressLog,
                   summary, flushCalls, closeCalls, interruptedAt, exc,
                   sleepsSinceSend, lastSleep>>

NextGen == CallGenerateTrade

SpecGen == InitGen /\ [][NextGen]_vars

-----------------------------------------------------------------------------
(* Properties *)

RateIs(n) == rate = <<n>>

InterruptedInLoop == interruptedAt \in ({"paused"} \cup LoopPcs)

\* C1: whenever the interrupt arrives inside the paused loop or the running
\* loop, the function returns with exactly one flush call and exactly one close
\* call made, whatever the number of records sent.
C1_FlushAndCloseOnEveryInterrupt ==
    (pc = "returned" /\ InterruptedInLoop) => (flushCalls = 1 /\ closeCalls = 1)

\* C2: with rate 0 no send call is ever made, and the process leaves the paused
\* sleep cycle only through the interrupt.
C2_PausedNeverSends ==
    /\ [](RateIs(0) => sendCalls = 0 /\ lastSent = NoSent)
    /\ [](RateIs(0) /\ pc \in {"paused_except", "returned"} => interruptedAt = "paused")
    /\ [][(pc = "paused" /\ pc' # "paused") => interruptedAt' = "paused"]_vars

C2_Witness ==
    RateIs(0) /\ pc = "paused" /\ lastSleep = PausedTick /\ sendCalls = 0

\* C3: the k-th progress line is logged when count is exactly 100*k and reports
\* that count; no line is logged at any other count; after every completed
\* iteration the number of lines is floor(count / 100).
C3_ProgressEvery100 ==
    /\ [](\A k \in 1..Len(progressLog) : progressLog[k].count = 100 * k)
    /\ [](Len(progressLog) <= count \div 100)
    /\ [](pc \in {"sleep", "generate"} => Len(progressLog) = count \div 100)
    /\ [][progressLog' # progressLog =>
            /\ Len(progressLog') = Len(progressLog) + 1
            /\ count = 100 * Len(progressLog')
            /\ count > 0
            /\ progressLog'[Len(progressLog')].count = count]_vars

C3_Witness ==
    pc = "sleep" /\ count = 200 /\ Len(progressLog) = 2 /\ progressLog[2].count = 200

\* C4: when the interrupt stops the running loop, the total in the summary line
\* equals the number of send calls made, and no flush or close call precedes
\* the line.
C4_SummaryEqualsSendCalls ==
    summary # NoSummary =>
        /\ summary[1] = sendCalls
        /\ (pc = "flush" => flushCalls = 0 /\ closeCalls = 0)

\* C5 as stated: once a send call has raised, no flush call and no close call
\* is ever made.
C5_NoShutdownAfterSendError ==
    exc = "SendError" => (flushCalls = 0 /\ closeCalls = 0)

\* C5 amended: an exception raised by a send call is neither caught nor retried
\* and no summary line is logged, but the finally block runs first: when that
\* block completes (no interrupt cuts it short), the process ends with that
\* exception after exactly one flush call and one close call.
C5_SendErrorRunsFinally ==
    /\ [](exc = "SendError" =>
             /\ pc \in {"flush", "close", "crashed"}
             /\ summary = NoSummary
             /\ sendCalls = count + 1)
    /\ [](exc = "SendError" /\ pc = "crashed" => flushCalls = 1 /\ closeCalls = 1)
    /\ [][exc = "SendError" => sendCalls' = sendCalls /\ pc' # "returned"]_vars

C5_Witness ==
    /\ exc = "SendError"
    /\ pc = "crashed"
    /\ sendCalls = count + 1
    /\ flushCalls = 1
    /\ closeCalls = 1

\* C6: a negative rate never publishes: either the resolved rate is >= 0 or no
\* send call is made.
C6_NegativeRateNeverSends ==
    (rate # NoRate /\ rate[1] < 0) => sendCalls = 0

\* C7: when the rate text is not an integer the process ends at start-up with
\* ValueError: the rate is never bound, no producer is built, and no send,
\* flush or close call is made.
C7_UnparseableRateFailsAtStartup ==
    ~ParseInt(env).ok =>
        /\ pc \in {"config", "crashed"}
        /\ (pc = "crashed" => exc = "ValueError")
        /\ rate = NoRate
        /\ producer = "none"
        /\ sendCalls = 0
        /\ flushCalls = 0
        /\ closeCalls = 0

C7_Witness ==
    ~ParseInt(env).ok /\ Len(env) > 0 /\ pc = "crashed" /\ exc = "ValueError"

\* C8: every send call is keyed by the UTF-8 bytes of the account_id of the
\* record it publishes.
C8_KeyIsRecordAccount ==
    /\ (pc = "send" => Utf8Encode(account_id) = Utf8Encode(trade.account_id))
    /\ (lastSent # NoSent => lastSent.key = Utf8Encode(lastSent.value.account_id))

C8_Witness ==
    /\ pc = "send"
    /\ sendCalls >= 2
    /\ lastSent.key = <<65, 67, 67, 57, 57, 57, 57>>
    /\ trade.account_id = <<"A", "C", "C", "1", "0", "0", "0">>

IsTagged(s, a, b, c, n) ==
    /\ Len(s) = 3 + n
    /\ s[1] = a /\ s[2] = b /\ s[3] = c
    /\ \A i \in 4..(3 + n) : s[i] \in {"0", "1", "2", "3", "4", "5", "6", "7", "8", "9"}

\* C9: every generated record has quantity in 1..1000, a price that is a whole
\* number of cents from 50.00 to 500.00, one of the 7 symbols, BUY or SELL,
\* account_id ACC + 4 digits and trade_id TRD + 6 digits.
C9_RecordInRange ==
    trade # NoTrade =>
        /\ trade.quantity \in 1..1000
        /\ trade.price \in 5000..50000
        /\ trade.symbol \in {"AAPL", "GOOGL", "MSFT", "AMZN", "TSLA", "META", "NVDA"}
        /\ trade.trade_type \in {"BUY", "SELL"}
        /\ IsTagged(trade.account_id, "A", "C", "C", 4)
        /\ IsTagged(trade.trade_id, "T", "R", "D", 6)
        /\ account_id = trade.account_id

C9_Witness ==
    /\ trade # NoTrade
    /\ trade.price = 50000
    /\ trade.quantity = 1000
    /\ trade.account_id = <<"A", "C", "C", "9", "9", "9", "9">>
    /\ trade.trade_id = <<"T", "R", "D", "1", "0", "0", "0", "0", "0">>

\* C10: an iteration runs generate, send, increment, progress test, sleep in
\* that order, so exactly one sleep of the fixed delay lies between two
\* consecutive send calls; flush is called before close, and no send call is
\* made once flush or close has been called.
C10_IterationAndShutdownOrder ==
    [][/\ (lastOp' = "generate" /\ lastOp' # lastOp) => lastOp \in {"none", "sleep"}
       /\ (lastOp' = "send" /\ lastOp' # lastOp) => lastOp = "generate"
       /\ (lastOp' = "incr" /\ lastOp' # lastOp) => lastOp = "send"
       /\ (lastOp' = "check" /\ lastOp' # lastOp) => lastOp = "incr"
       /\ (lastOp' = "sleep" /\ lastOp' # lastOp) => (lastOp = "check" \/ pc = "paused")
       /\ (sendCalls' # sendCalls) =>
             /\ sendCalls = 0 \/ (sleepsSinceSend = 1 /\ lastSleep = [num |-> 1, den |-> rate[1]])
             /\ flushCalls = 0
             /\ closeCalls = 0
       /\ (flushCalls' # flushCalls) => (flushCalls = 0 /\ closeCalls = 0)
       /\ (closeCalls' # closeCalls) => (flushCalls = 1 /\ closeCalls = 0)]_vars

C10_Witness ==
    /\ pc = "returned"
    /\ sendCalls >= 2
    /\ sleepsSinceSend = 1
    /\ flushCalls = 1
    /\ closeCalls = 1

=============================================================================
